---- MODULE Spec2Model ----
(***************************************************************************)
(* cx-redux-utils: reducer engine, reducer composition, action             *)
(* constructors, lenses, the response pipeline, the named fetch action     *)
(* creators and the ticket reader (src/src/index.js),                      *)
(* modelled over tagged JavaScript values.  A JavaScript value is a record *)
(* whose field t is its tag; a thrown exception is the outcome Throw(e),   *)
(* which every caller passes on.                                           *)
(***************************************************************************)
EXTENDS Integers, Sequences, FiniteSets, TLC

\* ------------------------------------------------------------------ bounds
MaxMaps == 2        \* action maps handed to one createReducer call
MaxLen == 2         \* longest sequence state the store may grow to
MaxReducers == 2    \* reducers handed to one reduceReducers call
MaxPath == 3        \* keys in the longest path handed to a lens
MaxParams == 3      \* parameters in the longest querystring

\* ------------------------------------------------------- JavaScript values
Undefined == [t |-> "Undefined"]
Null == [t |-> "Null"]
NaN == [t |-> "NaN"]
Bool(b) == [t |-> "Boolean", v |-> b]
Num(n) == [t |-> "Number", v |-> n]
Str(s) == [t |-> "String", v |-> s]
Arr(a) == [t |-> "Array", v |-> a]
Obj(m) == [t |-> "Object", v |-> m]
Fn(f) == [t |-> "Function", v |-> f]
Promise(st, x) == [t |-> "Promise", state |-> st, v |-> x]
Throw(e) == [t |-> "Throw", e |-> e]
TypeError == Throw("TypeError")
EmptyMap == <<>>
EmptyObj == Obj(EmptyMap)

IsThrow(x) == x.t = "Throw"

\* The characters of the strings that occur as values in the model.
Chars(s) ==
  CASE s = "" -> <<>>
    [] s = "a" -> <<"a">>
    [] s = "b" -> <<"b">>
    [] s = "r" -> <<"r">>
    [] s = "v" -> <<"v">>
    [] s = "ab" -> <<"a", "b">>
    [] s = "rv" -> <<"r", "v">>
    [] s = "m1" -> <<"m", "1">>

\* Property names of the indices 0, 1, 2, ...
IndexKeys == <<"0", "1", "2", "3", "4", "5">>
IndexKey(i) == IndexKeys[i + 1]
KeyIndex(k) == CHOOSE i \in 0..(Len(IndexKeys) - 1) : IndexKey(i) = k

\* The elements a spread [...x] iterates over (sequences and strings only).
Elements(x) ==
  CASE x.t = "Array" -> x.v
    [] x.t = "String" -> [i \in 1..Len(Chars(x.v)) |-> Str(Chars(x.v)[i])]

\* The own enumerable properties of a value, as a map from key to value:
\* what Object.assign, object spread and hasOwnProperty see.
OwnProps(x) ==
  CASE x.t = "Object" -> x.v
    [] x.t \in {"Array", "String"} ->
         [k \in {IndexKey(i - 1) : i \in 1..Len(Elements(x))} |->
            Elements(x)[KeyIndex(k) + 1]]
    [] OTHER -> EmptyMap

\* x.k for a value x that is neither undefined nor null.
Get(x, k) == IF k \in DOMAIN OwnProps(x) THEN OwnProps(x)[k] ELSE Undefined

\* The property key a value is coerced to when it is used as a key.
ToKey(p) ==
  CASE p.t = "String" -> p.v
    [] p.t = "Undefined" -> "undefined"
    [] p.t = "Null" -> "null"

Truthy(x) ==
  CASE x.t \in {"Undefined", "Null", "NaN"} -> FALSE
    [] x.t = "Boolean" -> x.v
    [] x.t = "Number" -> x.v # 0
    [] x.t = "String" -> x.v # ""
    [] OTHER -> TRUE

\* ------------------------------------------------------------------- ramda
isNil(x) == x.t \in {"Undefined", "Null"}

\* R.type: the class name of a value; NaN is a Number.
type(x) == IF x.t = "NaN" THEN "Number" ELSE x.t

\* R.defaultTo(d, v): d when v is null, undefined or NaN.
defaultTo(d, v) == IF isNil(v) \/ v.t = "NaN" THEN d ELSE v

\* Object.assign onto a map of properties.
Assign(l, r) ==
  [k \in DOMAIN l \cup DOMAIN r |-> IF k \in DOMAIN r THEN r[k] ELSE l[k]]

\* R.merge(l, r) = Object.assign({}, l, r).
merge(l, r) == Obj(Assign(Assign(EmptyMap, OwnProps(l)), OwnProps(r)))

\* R.mergeAll(list) = Object.assign({}, ...list).
RECURSIVE AssignAll(_, _)
AssignAll(acc, list) ==
  IF list = <<>> THEN acc
  ELSE AssignAll(Assign(acc, OwnProps(Head(list))), Tail(list))

\* Variant: on a key collision the first object of the list wins.
RECURSIVE AssignAllFirstWins(_, _)
AssignAllFirstWins(acc, list) ==
  IF list = <<>> THEN acc
  ELSE AssignAllFirstWins(Assign(OwnProps(Head(list)), acc), Tail(list))

mergeAll_firstWins(list) == Obj(AssignAllFirstWins(EmptyMap, list))

mergeAll(list) == Obj(AssignAll(EmptyMap, list))

\* R.propOr(val, p, obj): obj[p] when obj is not nil and has own property p.
propOr(val, p, obj) ==
  IF ~isNil(obj) /\ p \in DOMAIN OwnProps(obj) THEN OwnProps(obj)[p] ELSE val

\* ----------------------------------------------------------------- helpers
\* Variant: no coercion, the value is passed through.
orEmptyObject_passThrough(v) == v

orEmptyObject(v) == defaultTo(EmptyObj, v)

emptyObject == Fn([f |-> "emptyObject"])
getPropOrEmptyObjectFunction(p, obj) == propOr(emptyObject, p, obj)
\* Variant: the property is read directly (action.type), with no default.
getPropOrEmptyString_direct(p, obj) ==
  IF isNil(obj) THEN TypeError ELSE Get(obj, p)

getPropOrEmptyString(p, obj) == propOr(Str(""), p, obj)

typeIs(typeName, x) == type(x) = typeName

\* ---------------------------------------------------------------- handlers
createHandler(key) == Fn([f |-> "createHandler", key |-> key])
spreadHandler == Fn([f |-> "spread"])
appendHandler == Fn([f |-> "append"])
pickKeyHandler == Fn([f |-> "pickKey"])
notHandler == Fn([f |-> "not"])

\* fn(state, action) for the handler functions of the library and its tests;
\* calling a value that is not a function is a TypeError.
CallHandler(fn, state, action) ==
  CASE IsThrow(fn) -> fn
    [] fn.t # "Function" -> TypeError
    [] fn.v.f = "emptyObject" -> EmptyObj
    [] fn.v.f = "createHandler" ->
         IF isNil(action) THEN TypeError
         ELSE Obj(fn.v.key :> Get(action, "payload"))
    [] fn.v.f = "spread" ->
         IF isNil(action) THEN TypeError
         ELSE Obj(Assign(Assign(OwnProps(state),
                                OwnProps(Get(action, "payload"))),
                         "reducerTestKey" :> Str("rv")))
    [] fn.v.f = "append" ->
         IF state.t \notin {"Array", "String"} \/ isNil(action) THEN TypeError
         ELSE Arr(Append(Elements(state), Get(action, "payload")))
    [] fn.v.f = "pickKey" ->
         IF isNil(action) THEN TypeError
         ELSE IF isNil(Get(action, "payload")) THEN TypeError
         ELSE Get(Get(action, "payload"), "actionTestKey")
    [] fn.v.f = "not" -> Bool(~Truthy(state))

\* ---------------------------------------------------------- reducer engine
\* Variant: the state's keys win the merge.
applyHandlerByType_stateWins(state, handlerResult) ==
  IF typeIs("Object", state) THEN merge(handlerResult, state)
  ELSE handlerResult

\* Variant: every state type is merged.
applyHandlerByType_alwaysMerge(state, handlerResult) ==
  merge(state, handlerResult)

\* Variant: a state that is not a mapping is kept.
applyHandlerByType_keepOther(state, handlerResult) ==
  IF typeIs("Object", state) THEN merge(state, handlerResult)
  ELSE state

\* Variant: the handler's result replaces every state.
applyHandlerByType_handlerOnly(state, handlerResult) == handlerResult

applyHandlerByType(state, handlerResult) ==
  IF typeIs("Object", state) THEN merge(state, handlerResult)
  ELSE handlerResult

CreateReducerWith(state, maps, action) ==
  LET actionMap == mergeAll(maps)
      actionType == getPropOrEmptyString("type", action)
      actionTypeHandler ==
        IF IsThrow(actionType) THEN actionType
        ELSE getPropOrEmptyObjectFunction(ToKey(actionType), actionMap)
      handlerResult == CallHandler(actionTypeHandler, state, action)
  IN [state |-> state,
      actionType |-> actionType,
      handler |-> actionTypeHandler,
      handlerResult |-> handlerResult,
      result |-> IF IsThrow(handlerResult) THEN handlerResult
                 ELSE applyHandlerByType(state, handlerResult)]

\* Variant: the default also replaces a null state (state == null test).
createReducer_nilDefault(dflt, maps, stateArg, action) ==
  CreateReducerWith(IF isNil(stateArg) THEN dflt ELSE stateArg, maps, action)

\* Variant: the default parameter is missing.
createReducer_noDefault(dflt, maps, stateArg, action) ==
  CreateReducerWith(stateArg, maps, action)

\* The reducer createReducer(dflt, ...maps) returns, applied to
\* (stateArg, action); the record keeps the locals of the call.
createReducer(dflt, maps, stateArg, action) ==
  CreateReducerWith(IF stateArg = Undefined THEN dflt ELSE stateArg,
                    maps, action)

\* A reducer built by createReducer, as a function value: the closure
\* keeps the default state and the action maps.
reducerFn(dflt, maps) == Fn([f |-> "reducer", dflt |-> dflt, maps |-> maps])

\* r(p, current) for a reducer r: a built reducer or a plain
\* (state, action) function.
CallReducerFn(r, p, current) ==
  IF r.t = "Function" /\ r.v.f = "reducer"
  THEN createReducer(r.v.dflt, r.v.maps, p, current).result
  ELSE CallHandler(r, p, current)

\* Variant: Array.prototype.reduceRight, the last reducer runs first.
RECURSIVE reduceReducers_rightToLeft(_, _, _)
reduceReducers_rightToLeft(rs, previous, current) ==
  IF rs = <<>> THEN previous
  ELSE LET p == CallReducerFn(rs[Len(rs)], previous, current)
       IN IF IsThrow(p) THEN p
          ELSE reduceReducers_rightToLeft(SubSeq(rs, 1, Len(rs) - 1),
                                          p, current)

\* reduceReducers(...rs)(previous, current):
\* rs.reduce((p, r) => r(p, current), previous).
RECURSIVE reduceReducers(_, _, _)
reduceReducers(rs, previous, current) ==
  IF rs = <<>> THEN previous
  ELSE LET p == CallReducerFn(Head(rs), previous, current)
       IN IF IsThrow(p) THEN p
          ELSE reduceReducers(Tail(rs), p, current)

\* ----------------------------------------------------- action constructors
\* The i-th argument of a call, undefined when the call has fewer.
Arg(args, i) == IF i <= Len(args) THEN args[i] ELSE Undefined

\* A parameter with a default value (p = d): d replaces undefined only.
DefaultParam(d, v) == IF v = Undefined THEN d ELSE v

returnActionResult(actionType, payload, meta) ==
  Obj(("type" :> actionType)
      @@ ("payload" :> orEmptyObject(DefaultParam(EmptyObj, payload)))
      @@ ("meta" :> orEmptyObject(DefaultParam(EmptyObj, meta))))

\* createAction(actionType)(...args)
createAction(actionType, args) ==
  returnActionResult(actionType, Arg(args, 1), Arg(args, 2))

\* Variant: the message parameter has no default value.
returnErrorResult_noDefaultMessage(actionType, message, payload, meta) ==
  Obj(("type" :> actionType)
      @@ ("error" :> Bool(TRUE))
      @@ ("message" :> message)
      @@ ("payload" :> orEmptyObject(DefaultParam(EmptyObj, payload)))
      @@ ("meta" :> orEmptyObject(DefaultParam(EmptyObj, meta))))

returnErrorResult(actionType, message, payload, meta) ==
  Obj(("type" :> actionType)
      @@ ("error" :> Bool(TRUE))
      @@ ("message" :> DefaultParam(Str("An error occurred"), message))
      @@ ("payload" :> orEmptyObject(DefaultParam(EmptyObj, payload)))
      @@ ("meta" :> orEmptyObject(DefaultParam(EmptyObj, meta))))

\* createErrorAction(actionType, message)(...args)
createErrorAction(actionType, message, args) ==
  returnErrorResult(actionType, message, Arg(args, 1), Arg(args, 2))

\* dispatch(action) for the dispatch functions a thunk may be handed.
CallDispatch(dispatch, action) ==
  CASE dispatch = "identity" -> action
    [] dispatch = "returnsUndefined" -> Undefined
    [] dispatch = "returnsFulfilled" -> Promise("fulfilled", action)
    [] dispatch = "returnsRejected" -> Promise("rejected", action)
    [] dispatch = "throws" -> Throw("Error")

\* Promise.resolve(x): x itself when x is a promise, otherwise a promise
\* fulfilled with x.
PromiseResolve(x) == IF x.t = "Promise" THEN x ELSE Promise("fulfilled", x)

\* Promise.reject(x): a promise rejected with x, whatever x is.
PromiseReject(x) == Promise("rejected", x)

\* Variant: the result is wrapped with Promise.reject.
createThunk_rejecting(actionType, args, dispatch) ==
  LET action == returnActionResult(actionType, Arg(args, 1), Arg(args, 2))
      returned == CallDispatch(dispatch, action)
  IN [dispatched |-> <<action>>,
      returned |-> returned,
      result |-> IF IsThrow(returned) THEN returned
                 ELSE PromiseReject(returned)]

\* createThunk(actionType)(...args)(dispatch); the record keeps what
\* dispatch was called with and what it returned.
createThunk(actionType, args, dispatch) ==
  LET action == returnActionResult(actionType, Arg(args, 1), Arg(args, 2))
      returned == CallDispatch(dispatch, action)
  IN [dispatched |-> <<action>>,
      returned |-> returned,
      result |-> IF IsThrow(returned) THEN returned
                 ELSE PromiseResolve(returned)]

\* Variant: the result is wrapped with Promise.resolve.
createErrorThunk_resolving(actionType, message, args, dispatch) ==
  LET action ==
        returnErrorResult(actionType, message, Arg(args, 1), Arg(args, 2))
      returned == CallDispatch(dispatch, action)
  IN [dispatched |-> <<action>>,
      returned |-> returned,
      result |-> IF IsThrow(returned) THEN returned
                 ELSE PromiseResolve(returned)]

\* createErrorThunk(actionType, message)(...args)(dispatch)
createErrorThunk(actionType, message, args, dispatch) ==
  LET action ==
        returnErrorResult(actionType, message, Arg(args, 1), Arg(args, 2))
      returned == CallDispatch(dispatch, action)
  IN [dispatched |-> <<action>>,
      returned |-> returned,
      result |-> IF IsThrow(returned) THEN returned
                 ELSE PromiseReject(returned)]

\* ------------------------------------------------------------------ lenses
\* Variant: the walk reads through undefined and null, which throws.
RECURSIVE path_unguarded(_, _)
path_unguarded(paths, obj) ==
  IF paths = <<>> THEN obj
  ELSE IF isNil(obj) THEN TypeError
  ELSE path_unguarded(Tail(paths), Get(obj, ToKey(Head(paths))))

\* R.path(paths, obj): walks obj key by key and stops with undefined at the
\* first undefined or null value.
RECURSIVE path(_, _)
path(paths, obj) ==
  IF paths = <<>> THEN obj
  ELSE IF isNil(obj) THEN Undefined
  ELSE path(Tail(paths), Get(obj, ToKey(Head(paths))))

\* R.assoc(prop, val, obj): a new object with the enumerable properties of
\* obj and prop set to val.
\* Variant: a key the object already has keeps its value.
assoc_keepExisting(prop, val, obj) ==
  Obj(Assign(ToKey(prop) :> val, OwnProps(obj)))

assoc(prop, val, obj) == Obj(Assign(OwnProps(obj), ToKey(prop) :> val))

\* Object(x): an empty object for undefined and null, x itself (boxed, with
\* the same properties) otherwise.
ToObject(x) == IF isNil(x) THEN EmptyObj ELSE x

\* R.assocPath(path, val, obj): the objects along the path are copied, each
\* one below the first read as Object(obj[key]).
RECURSIVE assocPath(_, _, _)
assocPath(paths, val, obj) ==
  CASE Len(paths) = 0 -> val
    [] Len(paths) = 1 -> assoc(paths[1], val, obj)
    [] OTHER ->
         IF isNil(obj) THEN TypeError
         ELSE assoc(paths[1],
                    assocPath(Tail(paths), val,
                              ToObject(Get(obj, ToKey(paths[1])))),
                    obj)

\* R.lensPath(p) = lens(path(p), assocPath(p)); a lens is known by its path.
lensPath(p) == [path |-> p]

\* R.view(lens, x): the getter of the lens applied to x.
view(lens, x) == path(lens.path, x)

\* R.set(lens, v, x): the setter of the lens applied to v and x.
set(lens, v, x) == assocPath(lens.path, v, x)

\* getLens(p): a sequence of keys is the path, a single key a path of one.
getLens(p) == IF p.t = "Array" THEN lensPath(p.v) ELSE lensPath(<<p>>)

\* Variant: a target that is undefined or null is a TypeError.
createSelector_strictTarget(p, target) ==
  IF isNil(target) THEN TypeError ELSE view(getLens(p), target)

createSelector(p, target) == view(getLens(p), target)

\* Variant: the value is written into the target itself.
createSetter_inPlace(p, v, target) ==
  LET written == set(getLens(p), v, target)
  IN [result |-> written, targetAfter |-> written]

\* createSetter(p)(v, target): the copy with v at p, and the target as the
\* call leaves it.
createSetter(p, v, target) ==
  [result |-> set(getLens(p), v, target), targetAfter |-> target]

\* --------------------------------------------------------------- responses
\* ToNumber for the operands of a relational comparison.
ToNumber(x) ==
  CASE x.t = "Number" -> x
    [] x.t = "Null" -> Num(0)
    [] x.t \in {"Undefined", "NaN"} -> NaN

\* R.gte(a, b) = a >= b and R.lt(a, b) = a < b; false when either is NaN.
gte(a, b) ==
  /\ ToNumber(a).t = "Number"
  /\ ToNumber(b).t = "Number"
  /\ ToNumber(a).v >= ToNumber(b).v

lt(a, b) ==
  /\ ToNumber(a).t = "Number"
  /\ ToNumber(b).t = "Number"
  /\ ToNumber(a).v < ToNumber(b).v

\* R.and(a, b) = a && b and R.or(a, b) = a || b, on values.
and(a, b) == IF Truthy(a) THEN b ELSE a

or(a, b) == IF Truthy(a) THEN a ELSE b

\* R.isEmpty(x): x is '', [] or {}.
isEmpty(x) ==
  \/ x = Str("")
  \/ x = Arr(<<>>)
  \/ x = EmptyObj

\* The predicates of the library as function values.
isNilFn == Fn([f |-> "isNil"])
isEmptyFn == Fn([f |-> "isEmpty"])
statusCodeGTE(code) == Fn([f |-> "statusCodeGTE", code |-> code])
statusCodeLT(code) == Fn([f |-> "statusCodeLT", code |-> code])

notNil == Fn([f |-> "notNil"])
notEmpty == Fn([f |-> "notEmpty"])

isNilOrEmpty == or(isNilFn, isEmptyFn)

exists == and(notEmpty, notNil)

statusWithinRange(lowestCode, hightestCode) ==
  and(statusCodeGTE(lowestCode), statusCodeLT(hightestCode))

\* predicate(x) for a predicate of the library; prop('status') of undefined
\* or null is a TypeError.
CallPredicate(predicate, x) ==
  CASE predicate.v.f = "isNil" -> Bool(isNil(x))
    [] predicate.v.f = "isEmpty" -> Bool(isEmpty(x))
    [] predicate.v.f = "notNil" -> Bool(~isNil(x))
    [] predicate.v.f = "notEmpty" -> Bool(~isEmpty(x))
    [] predicate.v.f = "statusCodeGTE" ->
         IF isNil(x) THEN TypeError
         ELSE Bool(gte(Get(x, "status"), predicate.v.code))
    [] predicate.v.f = "statusCodeLT" ->
         IF isNil(x) THEN TypeError
         ELSE Bool(lt(Get(x, "status"), predicate.v.code))

\* statusIs(code)(x) = R.equals(code, x.status)
statusIs(code, x) == Get(x, "status") = code

\* A Headers object whose get('location') returns location.
Headers(location) == [t |-> "Headers", location |-> location]

\* JSON.parse, on the texts the model's responses carry.
JSONParse(text) ==
  CASE text = "{}" -> EmptyObj
    [] text = "{\"data\":\"ab\",\"meta\":\"rv\"}" ->
         Obj(("data" :> Str("ab")) @@ ("meta" :> Str("rv")))
    [] text = "{\"data\":{\"a\":1}}" -> Obj("data" :> Obj("a" :> Num(1)))
    [] text = "{\"data\":null}" -> Obj("data" :> Null)
    [] text = "{\"meta\":\"rv\"}" -> Obj("meta" :> Str("rv"))
    [] text = "\"ab\"" -> Str("ab")
    [] text = "null" -> Null
    [] text = "[]" -> Arr(<<>>)
    [] OTHER -> Throw("SyntaxError")

parse(x) == JSONParse(IF isEmpty(x) THEN "{}" ELSE x.v)

parseIfString(x) == IF typeIs("String", x) THEN parse(x) ELSE x

encodeResponse(x) == parseIfString(Get(x, "value"))

\* data.headers.get('location')
getHeaders(data) ==
  IF Get(data, "headers").t = "Headers" THEN Get(data, "headers").location
  ELSE TypeError

\* Variant: the location is stored under the key 'location'.
getRedirect_location(data) ==
  IF IsThrow(getHeaders(data)) THEN getHeaders(data)
  ELSE Obj("location" :> getHeaders(data))

getRedirect(data) ==
  IF IsThrow(getHeaders(data)) THEN getHeaders(data)
  ELSE Obj("redirect_to" :> getHeaders(data))

\* cond: the first branch whose predicate is truthy answers, none is
\* undefined.
statusFilter(x) ==
  LET withinRange == CallPredicate(statusWithinRange(Num(200), Num(300)), x)
  IN IF Truthy(CallPredicate(isNilOrEmpty, x))
     THEN CallHandler(emptyObject, x, Undefined)
     ELSE IF statusIs(Num(401), x) THEN getRedirect(x)
     ELSE IF IsThrow(withinRange) THEN withinRange
     ELSE IF Truthy(withinRange) THEN encodeResponse(x)
     ELSE Undefined

testFetchHandler == Fn([f |-> "testFetchHandler"])
identity == Fn([f |-> "identity"])

\* actionCreatorOrNew(func): func when it is a function, createAction(func)
\* otherwise.
actionCreatorOrNew(func) ==
  IF func.t = "Function" THEN func
  ELSE Fn([f |-> "createAction", actionType |-> func])

\* handler(data, meta) for the handlers fetchCallback is given.
CallFetchHandler(handler, data, meta) ==
  CASE handler.v.f = "testFetchHandler" ->
         Obj(("data" :> data) @@ ("meta" :> meta))
    [] handler.v.f = "identity" -> data
    [] handler.v.f = "createAction" ->
         createAction(handler.v.actionType, <<data, meta>>)

isResponseObj(x) == typeIs("Object", x) /\ "data" \in DOMAIN OwnProps(x)

\* Variant: the decoded value is passed on whole.
safeData_whole(x) == x

safeData(x) == IF isResponseObj(x) THEN path(<<Str("data")>>, x) ELSE x

safeMeta(x) == propOr(EmptyObj, "meta", x)

\* fetchCallback(func)(response): the arguments the handler is called with
\* and what it returns; an exception of statusFilter passes through.
fetchCallback(func, response) ==
  LET filtered == statusFilter(response)
  IN IF IsThrow(filtered)
     THEN [filtered |-> filtered, handlerArgs |-> <<>>, result |-> filtered]
     ELSE [filtered |-> filtered,
           handlerArgs |-> <<safeData(filtered), safeMeta(filtered)>>,
           result |-> CallFetchHandler(actionCreatorOrNew(func),
                                       safeData(filtered), safeMeta(filtered))]

\* ------------------------------------------------------------- named fetch
\* The values the global namespace holds for the application.
APP_NAME == Str("app")
APP_VERSION == Str("v1")

\* A value inside a template literal.
TemplateString(x) ==
  CASE x.t = "String" -> x.v
    [] x.t = "Undefined" -> "undefined"
    [] x.t = "Null" -> "null"

standardFetch(url, params) ==
  Obj(("type" :> Str("EFFECT_FETCH"))
      @@ ("payload" :>
            Obj(("url" :> DefaultParam(Str(""), url))
                @@ ("params" :> DefaultParam(EmptyObj, params)))))

headersWithNamedAccept(apiName) ==
  Obj("headers" :>
        Obj(("Accept" :>
               Str("application/x." \o TemplateString(apiName)
                   \o "-api.1+json"))
            @@ ("Content-Type" :> Str("application/json"))
            @@ ("cx-app" :> APP_NAME)
            @@ ("cx-app-version" :> APP_VERSION)))

methodPath == Arr(<<Str("method")>>)

setMethod(v, obj) == createSetter(methodPath, v, obj).result

\* pathSatisfies(exists, methodPath)
hasMethod(obj) == Truthy(CallPredicate(exists, path(methodPath.v, obj)))

\* Variant: the method is set to 'GET' whatever the params hold.
defaultMethodToGet_always(obj) == setMethod(Str("GET"), obj)

defaultMethodToGet(obj) ==
  IF hasMethod(obj) THEN obj ELSE setMethod(Str("GET"), obj)

\* Variant: the caller's params win the merge.
processParams_callerWins(params, headers) ==
  defaultMethodToGet(merge(headers, params))

processParams(params, headers) == defaultMethodToGet(merge(params, headers))

\* namedApiFetchWrapper(apiName, suffix)(url, params)
namedApiFetchWrapper(apiName, suffix, url, params) ==
  LET finalUrl ==
        Str("/api/" \o TemplateString(apiName)
            \o TemplateString(DefaultParam(Str("-api"), suffix))
            \o TemplateString(url))
      headers == headersWithNamedAccept(apiName)
      finalParams == processParams(DefaultParam(EmptyObj, params), headers)
  IN standardFetch(finalUrl, finalParams)

\* ------------------------------------------------------------------ ticket
\* A querystring is kept as the sequence of its tokens: parameter names,
\* values and the separators '?', '&' and '='.  The string it stands for:
RECURSIVE JoinTokens(_)
JoinTokens(tokens) ==
  IF tokens = <<>> THEN "" ELSE Head(tokens) \o JoinTokens(Tail(tokens))

\* R.split(sep, str): the pieces of str between the occurrences of sep.
RECURSIVE split(_, _)
split(sep, tokens) ==
  IF \A i \in 1..Len(tokens) : tokens[i] # sep THEN <<tokens>>
  ELSE LET i == CHOOSE j \in 1..Len(tokens) :
                  /\ tokens[j] = sep
                  /\ \A h \in 1..(j - 1) : tokens[h] # sep
       IN <<SubSeq(tokens, 1, i - 1)>>
          \o split(sep, SubSeq(tokens, i + 1, Len(tokens)))

splitParams(tokens) == split("&", tokens)

\* R.test(/ticket/, str): a token of the model holds a match.
containsTicket(tokens) ==
  \E i \in 1..Len(tokens) : tokens[i] \in {"ticket", "myticket"}

\* The first piece that contains a ticket (R.find), 'ticket=' when R.find
\* returns undefined.
getTicketString(list) ==
  IF \A i \in 1..Len(list) : ~containsTicket(list[i]) THEN <<"ticket", "=">>
  ELSE list[CHOOSE i \in 1..Len(list) :
              /\ containsTicket(list[i])
              /\ \A h \in 1..(i - 1) : ~containsTicket(list[h])]

splitParamPair(tokens) == split("=", tokens)

\* fromPairs([pair]): the mapping { [pair[0]]: pair[1] }.
makeParamObject(pair) ==
  Obj(JoinTokens(pair[1]) :>
        IF Len(pair) >= 2 THEN Str(JoinTokens(pair[2])) ELSE Undefined)

getTicket(tokens) ==
  makeParamObject(splitParamPair(getTicketString(splitParams(tokens))))

\* ------------------------------------------------------------------ inputs
MapA == Obj("T1" :> createHandler("k1"))
MapB == Obj(("T1" :> spreadHandler) @@ ("T2" :> notHandler))
MapC == Obj(("T1" :> appendHandler) @@ ("T2" :> pickKeyHandler))
ActionMaps == {EmptyObj, MapA, MapB, MapC}

RECURSIVE SeqsUpTo(_, _)
SeqsUpTo(S, n) ==
  IF n = 0 THEN {<<>>}
  ELSE LET shorter == SeqsUpTo(S, n - 1)
       IN shorter \cup {Append(q, x) : q \in shorter, x \in S}

Payloads ==
  {Obj("k1" :> Str("ab")), Obj("actionTestKey" :> Str("b")), Str("ab")}

WellFormedActions ==
  {Obj(("type" :> Str(ty)) @@ ("payload" :> p)) :
     ty \in {"T1", "T2"}, p \in Payloads}
  \cup {Obj("type" :> Str("T1")), Obj("type" :> Str("T3"))}

MalformedActions ==
  {Undefined, Null, EmptyObj, Obj("payload" :> Str("ab")),
   Obj("type" :> Undefined)}

Actions == WellFormedActions \cup MalformedActions

MappingStates ==
  {EmptyObj, Obj(("k1" :> Str("a")) @@ ("k2" :> Num(1)))}

OtherStates ==
  {Null, Arr(<<Str("a")>>), Str("ab"), Bool(TRUE), Num(0), NaN}

StateArgs == {Undefined} \cup MappingStates \cup OtherStates

DefaultStates ==
  {Obj(("k1" :> Str("a")) @@ ("k2" :> Num(1))), EmptyObj,
   Arr(<<Str("a")>>), Str("ab"), Bool(TRUE)}

ReducerFns ==
  {createHandler("k1"), notHandler, spreadHandler,
   reducerFn(Obj(("k1" :> Str("a")) @@ ("k2" :> Num(1))), <<MapC>>)}

ActionTypes == {Str("T1"), Str("T2")}

Messages == {Undefined, Null, Str("m1")}

\* The falsy values of the action test suite, NaN and a filled mapping.
ArgValues ==
  {Undefined, Bool(FALSE), Null, EmptyObj, Arr(<<>>), Str(""), NaN,
   Obj("k1" :> Str("ab"))}

ArgLists == SeqsUpTo(ArgValues, 2)

DispatchFns ==
  {"identity", "returnsUndefined", "returnsFulfilled", "returnsRejected",
   "throws"}

PathKeys == {Str("a"), Str("b"), Str("0")}

\* What createSelector and createSetter are given: one key, or a sequence.
LensPaths == PathKeys \cup {Arr(p) : p \in SeqsUpTo(PathKeys, MaxPath)}

\* Mappings nested three deep, with a sequence, strings, a number and null
\* among the values.
Mappings ==
  {EmptyObj,
   Obj(("a" :> Str("rv")) @@ ("b" :> Num(1))),
   Obj(("a" :> Obj(("a" :> Null) @@ ("b" :> Str("rv")))) @@ ("b" :> Str("ab"))),
   Obj(("a" :> Obj(("a" :> Obj(("a" :> Str("rv")) @@ ("b" :> Num(2))))
                   @@ ("b" :> Num(1))))
       @@ ("0" :> Arr(<<Str("a"), Str("b")>>)))}

SelectorTargets == Mappings \cup {Undefined, Null, Arr(<<>>)}

SetValues == {Str("rv"), Undefined, Obj("a" :> Num(1))}

\* Status codes around the bounds the library and its tests use.
StatusCodes ==
  {Num(0), Num(1), Num(3), Num(10), Num(11), Num(100), Num(199), Num(200),
   Num(204), Num(299), Num(300), Num(401), Num(404), Num(500)}

RangeBounds == {Num(1), Num(10), Num(200), Num(300)}

\* What a response carries as value: JSON text (valid, empty or broken), a
\* value already decoded, or nothing.
Bodies ==
  {Str("{\"data\":\"ab\",\"meta\":\"rv\"}"), Str("{\"data\":{\"a\":1}}"),
   Str("{\"data\":null}"), Str("{\"meta\":\"rv\"}"), Str("\"ab\""),
   Str("null"), Str("[]"), Str(""), Str("{oops"),
   Obj("data" :> Str("ab")), Undefined}

HeaderValues == {Undefined, Headers(Str("url")), Headers(Null)}

\* A response object with the fields that are not undefined.
Response(status, value, headers) ==
  LET fields == (("status" :> status) @@ ("value" :> value))
                @@ ("headers" :> headers)
      present == {k \in DOMAIN fields : fields[k] # Undefined}
  IN Obj([k \in present |-> fields[k]])

Responses ==
  {Response(s, v, h) :
     s \in StatusCodes \cup {Undefined}, v \in Bodies, h \in HeaderValues}
  \cup {Undefined, Null, Arr(<<>>)}

FetchHandlers == {testFetchHandler, identity, Str("T1")}

ApiNames == {Str("widget"), Str("queue"), Str("ums")}

\* The params argument: left out, null, or a mapping with or without a
\* method, a body and headers of the caller.
ParamsArgs ==
  {Undefined, Null, EmptyObj,
   Obj(("method" :> Str("POST")) @@ ("body" :> Obj("testKey1" :> Str("v1")))),
   Obj("body" :> Obj("testKey1" :> Str("v1"))),
   Obj("method" :> Str("")),
   Obj("method" :> Null),
   Obj("method" :> Undefined),
   Obj(("method" :> Str("PUT"))
       @@ ("headers" :> Obj(("X-Caller" :> Str("c"))
                            @@ ("Accept" :> Str("text/html"))))),
   Obj(("headers" :> Obj("X-Caller" :> Str("c")))
       @@ ("body" :> Obj("testKey1" :> Str("v1"))))}

\* Parameters of a querystring, as name and value.
QueryParams ==
  {<<"param1", "val1">>, <<"ticket", "abc">>, <<"flicket", "balloon">>,
   <<"myticket", "no">>}

\* Querystrings: up to MaxParams parameters, with or without the leading '?'.
Queries ==
  [lead : BOOLEAN, params : SeqsUpTo(QueryParams, MaxParams)]

\* The tokens of a querystring: '?' name '=' value '&' name '=' value ...
RECURSIVE ParamTokens(_)
ParamTokens(params) ==
  IF params = <<>> THEN <<>>
  ELSE <<Head(params)[1], "=", Head(params)[2]>>
       \o (IF Tail(params) = <<>> THEN <<>> ELSE <<"&">>)
       \o ParamTokens(Tail(params))

QueryTokens(q) ==
  (IF q.lead THEN <<"?">> ELSE <<>>) \o ParamTokens(q.params)

\* ------------------------------------------------------------------- state
VARIABLES
  defaultState,   \* first argument of createReducer
  actionMaps,     \* the remaining arguments of createReducer, in order
  reducers,       \* the arguments of reduceReducers, in order
  state,          \* the state the store holds (undefined before any action)
  call            \* the last call made into the library and its outcome

vars == <<defaultState, actionMaps, reducers, state, call>>

NoCall == [op |-> "none"]

\* The store is created with a reducer and an optional preloaded state.
Init ==
  /\ defaultState \in DefaultStates
  /\ actionMaps \in SeqsUpTo(ActionMaps, MaxMaps)
  /\ reducers = <<>>
  /\ state \in StateArgs
  /\ call = NoCall

\* The store runs its reducer on the state it holds and keeps the result;
\* a reducer that throws leaves the store as it was.
Dispatch(action) ==
  LET c == [op |-> "dispatch", stateArg |-> state, action |-> action]
             @@ createReducer(defaultState, actionMaps, state, action)
  IN /\ c.result.t = "Array" => Len(c.result.v) <= MaxLen
     /\ call' = c
     /\ state' = IF IsThrow(c.result) THEN state ELSE c.result
     /\ UNCHANGED <<defaultState, actionMaps, reducers>>

Next == \E a \in Actions : Dispatch(a)

Spec == Init /\ [][Next]_vars

\* A store whose reducer is reduceReducers(...reducers).
InitCompose ==
  /\ defaultState = Undefined
  /\ actionMaps = <<>>
  /\ reducers \in SeqsUpTo(ReducerFns, MaxReducers)
  /\ state \in StateArgs
  /\ call = NoCall

DispatchCombined(action) ==
  LET r == reduceReducers(reducers, state, action)
  IN /\ r.t = "Array" => Len(r.v) <= MaxLen
     /\ call' = [op |-> "reduceReducers", previous |-> state,
                 current |-> action, result |-> r]
     /\ state' = IF IsThrow(r) THEN state ELSE r
     /\ UNCHANGED <<defaultState, actionMaps, reducers>>

NextCompose == \E a \in Actions : DispatchCombined(a)

SpecCompose == InitCompose /\ [][NextCompose]_vars

\* The action constructors, stage by stage: a creator is made from a type
\* (and a message), called with a payload and a meta, and the thunk it
\* returns, if any, is called with a dispatch function.
InitActions ==
  /\ defaultState = Undefined
  /\ actionMaps = <<>>
  /\ reducers = <<>>
  /\ state = Undefined
  /\ call = NoCall

MakeCreator(kind, actionType, message) ==
  /\ call = NoCall
  /\ call' = [op |-> "creator", kind |-> kind, actionType |-> actionType,
              message |-> message]
  /\ UNCHANGED <<defaultState, actionMaps, reducers, state>>

CallCreator(args) ==
  /\ call.op = "creator"
  /\ call' =
       [call EXCEPT !.op = "created"]
       @@ [args |-> args,
           result |->
             CASE call.kind = "createAction" ->
                    createAction(call.actionType, args)
               [] call.kind = "createErrorAction" ->
                    createErrorAction(call.actionType, call.message, args)
               [] OTHER -> Fn([f |-> "thunk"])]
  /\ UNCHANGED <<defaultState, actionMaps, reducers, state>>

CallThunk(dispatch) ==
  /\ call.op = "created"
  /\ call.kind \in {"createThunk", "createErrorThunk"}
  /\ call' =
       [op |-> "thunked", kind |-> call.kind, actionType |-> call.actionType,
        message |-> call.message, args |-> call.args, dispatch |-> dispatch]
       @@ (IF call.kind = "createThunk"
           THEN createThunk(call.actionType, call.args, dispatch)
           ELSE createErrorThunk(call.actionType, call.message, call.args,
                                 dispatch))
  /\ UNCHANGED <<defaultState, actionMaps, reducers, state>>

NextActions ==
  \/ \E ty \in ActionTypes : MakeCreator("createAction", ty, Undefined)
  \/ \E ty \in ActionTypes : MakeCreator("createThunk", ty, Undefined)
  \/ \E ty \in ActionTypes, m \in Messages :
       MakeCreator("createErrorAction", ty, m)
  \/ \E ty \in ActionTypes, m \in Messages :
       MakeCreator("createErrorThunk", ty, m)
  \/ \E args \in ArgLists : CallCreator(args)
  \/ \E d \in DispatchFns : CallThunk(d)

SpecActions == InitActions /\ [][NextActions]_vars

\* The lenses, stage by stage: a selector or a setter is made from a path and
\* then called with a target.
InitLens ==
  /\ defaultState = Undefined
  /\ actionMaps = <<>>
  /\ reducers = <<>>
  /\ state = Undefined
  /\ call = NoCall

MakeSelector(p) ==
  /\ call = NoCall
  /\ call' = [op |-> "selector", path |-> p]
  /\ UNCHANGED <<defaultState, actionMaps, reducers, state>>

CallSelector(target) ==
  /\ call.op = "selector"
  /\ call' = [op |-> "selected", path |-> call.path, target |-> target,
              result |-> createSelector(call.path, target)]
  /\ UNCHANGED <<defaultState, actionMaps, reducers, state>>

MakeSetter(p) ==
  /\ call = NoCall
  /\ call' = [op |-> "setter", path |-> p]
  /\ UNCHANGED <<defaultState, actionMaps, reducers, state>>

CallSetter(v, target) ==
  /\ call.op = "setter"
  /\ call' = [op |-> "set", path |-> call.path, value |-> v,
              target |-> target]
             @@ createSetter(call.path, v, target)
  /\ UNCHANGED <<defaultState, actionMaps, reducers, state>>

\* The selector of the same path reads what the setter returned.
ReadBack ==
  /\ call.op = "set"
  /\ call' = [op |-> "readBack", path |-> call.path, value |-> call.value,
              target |-> call.target, written |-> call.result,
              result |-> createSelector(call.path, call.result)]
  /\ UNCHANGED <<defaultState, actionMaps, reducers, state>>

\* The setter of the same path is called on what it returned.
SetAgain(v) ==
  /\ call.op = "set"
  /\ call' = [op |-> "setAgain", path |-> call.path, first |-> call.value,
              value |-> v, target |-> call.target, written |-> call.result,
              result |-> createSetter(call.path, v, call.result).result]
  /\ UNCHANGED <<defaultState, actionMaps, reducers, state>>

NextLens ==
  \/ \E p \in LensPaths : MakeSelector(p)
  \/ \E o \in SelectorTargets : CallSelector(o)
  \/ \E p \in LensPaths : MakeSetter(p)
  \/ \E v \in SetValues, o \in Mappings : CallSetter(v, o)
  \/ ReadBack
  \/ \E v \in SetValues : SetAgain(v)

SpecLens == InitLens /\ [][NextLens]_vars

\* The response pipeline: a status range is made and asked about a response,
\* a response is filtered, a callback is made and given a response.
InitFetch ==
  /\ defaultState = Undefined
  /\ actionMaps = <<>>
  /\ reducers = <<>>
  /\ state = Undefined
  /\ call = NoCall

MakeRange(lowestCode, hightestCode) ==
  /\ call = NoCall
  /\ call' = [op |-> "range", low |-> lowestCode, high |-> hightestCode,
              predicate |-> statusWithinRange(lowestCode, hightestCode)]
  /\ UNCHANGED <<defaultState, actionMaps, reducers, state>>

CallRange(response) ==
  /\ call.op = "range"
  /\ call' = [op |-> "ranged", low |-> call.low, high |-> call.high,
              response |-> response,
              result |-> CallPredicate(call.predicate, response)]
  /\ UNCHANGED <<defaultState, actionMaps, reducers, state>>

CallStatusFilter(response) ==
  /\ call = NoCall
  /\ call' = [op |-> "filtered", response |-> response,
              result |-> statusFilter(response)]
  /\ UNCHANGED <<defaultState, actionMaps, reducers, state>>

MakeCallback(func) ==
  /\ call = NoCall
  /\ call' = [op |-> "callback", func |-> func]
  /\ UNCHANGED <<defaultState, actionMaps, reducers, state>>

Respond(response) ==
  /\ call.op = "callback"
  /\ call' = [op |-> "responded", func |-> call.func, response |-> response]
             @@ fetchCallback(call.func, response)
  /\ UNCHANGED <<defaultState, actionMaps, reducers, state>>

NextFetch ==
  \/ \E l \in RangeBounds, h \in RangeBounds : MakeRange(l, h)
  \/ \E r \in Responses : CallRange(r)
  \/ \E r \in Responses : CallStatusFilter(r)
  \/ \E x \in FetchHandlers : MakeCallback(x)
  \/ \E r \in Responses : Respond(r)

SpecFetch == InitFetch /\ [][NextFetch]_vars

\* The named fetch action creators: one is made from an api name and a
\* suffix, then called with a url and params.
MakeNamedFetch(apiName, suffix) ==
  /\ call = NoCall
  /\ call' = [op |-> "namedFetch", apiName |-> apiName, suffix |-> suffix]
  /\ UNCHANGED <<defaultState, actionMaps, reducers, state>>

CallNamedFetch(url, params) ==
  /\ call.op = "namedFetch"
  /\ call' = [op |-> "fetched", apiName |-> call.apiName,
              suffix |-> call.suffix, url |-> url, params |-> params,
              result |-> namedApiFetchWrapper(call.apiName, call.suffix,
                                              url, params)]
  /\ UNCHANGED <<defaultState, actionMaps, reducers, state>>

NextNamed ==
  \/ \E n \in ApiNames, x \in {Undefined, Str(""), Str(".api")} :
       MakeNamedFetch(n, x)
  \/ \E u \in {Str(""), Str("/x"), Str("/testEndpoint/1/test")},
        p \in ParamsArgs :
       CallNamedFetch(u, p)

SpecNamed == InitFetch /\ [][NextNamed]_vars

\* getTicket applied to a querystring.
CallGetTicket(q) ==
  /\ call = NoCall
  /\ call' = [op |-> "ticket", query |-> q,
              text |-> JoinTokens(QueryTokens(q)),
              result |-> getTicket(QueryTokens(q))]
  /\ UNCHANGED <<defaultState, actionMaps, reducers, state>>

NextTicket == \E q \in Queries : CallGetTicket(q)

SpecTicket == InitFetch /\ [][NextTicket]_vars

\* ------------------------------------------------------------ properties
IsReducerCall == call.op = "dispatch"

\* The own type of an action, when it has one that is a string.
HasType(a, ty) ==
  a.t = "Object" /\ "type" \in DOMAIN a.v /\ a.v["type"] = Str(ty)

\* The positions of the action maps that hold a handler for the action.
MapsHandling(a) ==
  {i \in 1..Len(actionMaps) :
     \E ty \in DOMAIN actionMaps[i].v : HasType(a, ty)}

Handled(a) == MapsHandling(a) # {}

\* The state a reducer call works on: the argument, or the default state
\* when the argument is undefined.
GivenState == IF call.stateArg = Undefined THEN defaultState ELSE call.stateArg

\* C1: called with a plain-mapping state s and an action whose type has a
\* handler h, the reducer returns the shallow merge of s with h(s, a): every
\* key of h(s, a) carries the handler's value, every other key of s keeps
\* the value it has in s, and there is no further key.
C1_MergeOfStateAndHandlerResult ==
  (IsReducerCall /\ type(GivenState) = "Object" /\ Handled(call.action))
  => LET s == GivenState.v
         h == CallHandler(call.handler, GivenState, call.action)
     IN IF IsThrow(h) THEN call.result = h
        ELSE /\ call.result.t = "Object"
             /\ DOMAIN call.result.v = DOMAIN s \cup DOMAIN OwnProps(h)
             /\ \A k \in DOMAIN OwnProps(h) :
                  call.result.v[k] = OwnProps(h)[k]
             /\ \A k \in DOMAIN s \ DOMAIN OwnProps(h) :
                  call.result.v[k] = s[k]

C1_Witness ==
  /\ IsReducerCall /\ type(call.stateArg) = "Object" /\ Handled(call.action)
  /\ call.handlerResult.t = "Object"
  /\ \E k \in DOMAIN call.stateArg.v \cap DOMAIN call.handlerResult.v :
       /\ call.stateArg.v[k] # call.handlerResult.v[k]
       /\ call.result.v[k] = call.handlerResult.v[k]
  /\ \E k \in DOMAIN call.stateArg.v \ DOMAIN call.handlerResult.v :
       call.result.v[k] = call.stateArg.v[k]

\* C2: called with a state that is not a plain mapping (a sequence, a
\* string, a boolean, a number, null) and an action whose type has a handler
\* h, the reducer returns exactly h(state, action).
C2_NonMappingStateIsReplaced ==
  (IsReducerCall /\ type(GivenState) # "Object" /\ Handled(call.action))
  => call.result = CallHandler(call.handler, GivenState, call.action)

C2_Witness ==
  /\ IsReducerCall /\ call.stateArg.t = "Array" /\ Handled(call.action)
  /\ call.result.t = "Object"
  /\ call.result = call.handlerResult

\* C3: with a default state s of mapping type and no handler for the
\* action's type, the reducer called with an undefined state returns s: no
\* key added, removed or changed.
C3_NoHandlerReturnsDefault ==
  (IsReducerCall /\ call.stateArg = Undefined /\ type(defaultState) = "Object"
     /\ ~Handled(call.action))
  => call.result = defaultState

C3_Witness ==
  /\ IsReducerCall /\ call.stateArg = Undefined /\ ~Handled(call.action)
  /\ actionMaps = <<EmptyObj>>
  /\ HasType(call.action, "T1")
  /\ defaultState.t = "Object" /\ DOMAIN defaultState.v # {}
  /\ call.result = defaultState

\* C4: for every state, an action that is undefined, null or an object
\* without a type field takes the fallback branch and the reducer returns a
\* value: it does not throw.
C4_MalformedActionNeverThrows ==
  (IsReducerCall
     /\ (isNil(call.action)
          \/ (call.action.t = "Object" /\ "type" \notin DOMAIN call.action.v)))
  => /\ call.handler = emptyObject
     /\ ~IsThrow(call.result)

C4_Witness ==
  /\ IsReducerCall /\ isNil(call.action) /\ Len(actionMaps) > 0
  /\ call.handler = emptyObject /\ call.result = EmptyObj

\* C5: reduceReducers(r1, ..., rn)(s, a) is the left-to-right fold
\* rn(...r2(r1(s, a), a)..., a): the first reducer receives s, each next one
\* the state the previous one produced, all the same action a, and the
\* result is what the last one returns; with no reducers it is s.
C5_LeftToRightFold ==
  call.op = "reduceReducers"
  => LET n == Len(reducers)
         acc[i \in 0..n] ==
           IF i = 0 THEN call.previous
           ELSE IF IsThrow(acc[i - 1]) THEN acc[i - 1]
           ELSE CallReducerFn(reducers[i], acc[i - 1], call.current)
     IN call.result = acc[n]

C5_Witness ==
  /\ call.op = "reduceReducers"
  /\ reducers = <<createHandler("k1"), notHandler>>
  /\ call.previous.t = "Object"
  /\ call.result = Bool(FALSE)
  /\ CallReducerFn(createHandler("k1"),
                   CallReducerFn(notHandler, call.previous, call.current),
                   call.current) # call.result

C7_LastMapWins ==
  (IsReducerCall /\ Handled(call.action))
  => LET last == CHOOSE i \in MapsHandling(call.action) :
                   \A j \in MapsHandling(call.action) : j <= i
         ty == call.action.v["type"].v
     IN call.handler = actionMaps[last].v[ty]

C7_Witness ==
  /\ IsReducerCall
  /\ Cardinality(MapsHandling(call.action)) > 1
  /\ \E i, j \in MapsHandling(call.action) :
       /\ i < j
       /\ actionMaps[i].v[call.action.v["type"].v] # call.handler
       /\ actionMaps[j].v[call.action.v["type"].v] = call.handler

\* The payload or meta an action carries for an argument, as claimed: {}
\* for an omitted, undefined or null argument, else the argument.
NilToEmpty(x) == IF x \in {Undefined, Null} THEN EmptyObj ELSE x

\* The same, with NaN also replaced by {}.
NilOrNaNToEmpty(x) == IF x \in {Undefined, Null, NaN} THEN EmptyObj ELSE x

IsCreated(kind) == call.op = "created" /\ call.kind = kind

\* C8 as stated: the action of createAction(T) has type T, payload {} for an
\* omitted, undefined or null payload argument and the argument verbatim
\* otherwise, meta by the same rule, and the creator never throws.
C8_Original ==
  IsCreated("createAction")
  => /\ ~IsThrow(call.result)
     /\ call.result =
          Obj(("type" :> call.actionType)
              @@ ("payload" :> NilToEmpty(Arg(call.args, 1)))
              @@ ("meta" :> NilToEmpty(Arg(call.args, 2))))

\* C8 amended: as C8, except that a NaN payload or meta argument is also
\* replaced by {}.
C8_ActionOfCreateAction ==
  IsCreated("createAction")
  => /\ ~IsThrow(call.result)
     /\ call.result.t = "Object"
     /\ DOMAIN call.result.v = {"type", "payload", "meta"}
     /\ call.result.v["type"] = call.actionType
     /\ call.result.v["payload"] = NilOrNaNToEmpty(Arg(call.args, 1))
     /\ call.result.v["meta"] = NilOrNaNToEmpty(Arg(call.args, 2))

C8_Witness ==
  /\ IsCreated("createAction")
  /\ call.args = <<Null, Obj("k1" :> Str("ab"))>>
  /\ call.result.v["payload"] = EmptyObj
  /\ call.result.v["meta"] = Obj("k1" :> Str("ab"))

\* C9: the action of createErrorAction(T, m) has type T, error exactly true,
\* message m, or "An error occurred" when m is omitted, and a payload and a
\* meta that are {} when the argument is undefined or null.
C9_ActionOfCreateErrorAction ==
  IsCreated("createErrorAction")
  => /\ call.result.t = "Object"
     /\ DOMAIN call.result.v = {"type", "error", "message", "payload", "meta"}
     /\ call.result.v["type"] = call.actionType
     /\ call.result.v["error"] = Bool(TRUE)
     /\ call.result.v["message"] =
          (IF call.message = Undefined THEN Str("An error occurred")
           ELSE call.message)
     /\ \A i \in {1, 2} :
          isNil(Arg(call.args, i))
          => call.result.v[<<"payload", "meta">>[i]] = EmptyObj

C9_Witness ==
  /\ IsCreated("createErrorAction")
  /\ call.message = Undefined
  /\ call.args = <<Null>>
  /\ call.result.v["message"] = Str("An error occurred")
  /\ call.result.v["payload"] = EmptyObj

IsThunked(kind) == call.op = "thunked" /\ call.kind = kind

\* The action createAction(T)(payload, meta) builds.
ActionFor(actionType, args) ==
  Obj(("type" :> actionType)
      @@ ("payload" :> NilOrNaNToEmpty(Arg(args, 1)))
      @@ ("meta" :> NilOrNaNToEmpty(Arg(args, 2))))

\* C10 as stated: the thunk of createThunk(T)(payload, meta) calls dispatch
\* exactly once, with the action createAction(T)(payload, meta) builds, and
\* returns a promise that is fulfilled, never rejected, with the value
\* dispatch returned (the value it holds, when that is a promise).
C10_Original ==
  IsThunked("createThunk")
  => /\ call.dispatched = <<ActionFor(call.actionType, call.args)>>
     /\ call.result.t = "Promise"
     /\ call.result.state = "fulfilled"
     /\ call.result.v =
          (IF call.returned.t = "Promise" THEN call.returned.v
           ELSE call.returned)

\* C10 amended: the thunk calls dispatch exactly once, with that action;
\* when dispatch returns a value that is not a promise the thunk returns a
\* promise fulfilled with it, when dispatch returns a promise the thunk
\* returns that promise, rejected if it is rejected, and when dispatch throws
\* the thunk throws.
C10_ThunkDispatchesOnce ==
  IsThunked("createThunk")
  => /\ call.dispatched = <<ActionFor(call.actionType, call.args)>>
     /\ call.returned = CallDispatch(call.dispatch, call.dispatched[1])
     /\ call.result =
          (IF IsThrow(call.returned) \/ call.returned.t = "Promise"
           THEN call.returned
           ELSE Promise("fulfilled", call.returned))

C10_Witness ==
  /\ IsThunked("createThunk")
  /\ call.dispatch = "identity"
  /\ call.args = <<Obj("k1" :> Str("ab")), Null>>
  /\ Len(call.dispatched) = 1
  /\ call.result = Promise("fulfilled", call.dispatched[1])


\* The action createErrorAction(T, m)(payload, meta) builds.
ErrorActionFor(actionType, message, args) ==
  Obj(("type" :> actionType)
      @@ ("error" :> Bool(TRUE))
      @@ ("message" :>
            IF message = Undefined THEN Str("An error occurred") ELSE message)
      @@ ("payload" :> NilOrNaNToEmpty(Arg(args, 1)))
      @@ ("meta" :> NilOrNaNToEmpty(Arg(args, 2))))

KeysOf(p) == IF p.t = "Array" THEN [i \in 1..Len(p.v) |-> p.v[i].v] ELSE <<p.v>>

\* Every key along keys is present in o, level by level.
RECURSIVE AllPresent(_, _)
AllPresent(o, keys) ==
  \/ keys = <<>>
  \/ /\ Head(keys) \in DOMAIN OwnProps(o)
     /\ AllPresent(OwnProps(o)[Head(keys)], Tail(keys))

\* The value stored at keys in o, all of them being present.
RECURSIVE StoredAt(_, _)
StoredAt(o, keys) ==
  IF keys = <<>> THEN o ELSE StoredAt(OwnProps(o)[Head(keys)], Tail(keys))

IsSelected == call.op = "selected"

\* C12: on a mapping o, createSelector(p)(o) returns the value stored at p
\* when every key along p is present, and returns undefined, without
\* throwing, when an intermediate or the leaf key is absent, o = {} included.
C12_SelectorReadsPath ==
  (IsSelected /\ call.target.t = "Object")
  => call.result =
       (IF AllPresent(call.target, KeysOf(call.path))
        THEN StoredAt(call.target, KeysOf(call.path))
        ELSE Undefined)

C12_Witness ==
  /\ IsSelected
  /\ call.target.t = "Object"
  /\ call.target # EmptyObj
  /\ Len(KeysOf(call.path)) = 3
  /\ ~AllPresent(call.target, SubSeq(KeysOf(call.path), 1, 1))
  /\ call.result = Undefined


\* C13: createSelector(k), k a single property name, applied to an undefined
\* target throws a TypeError (it does not return undefined).
C13_SingleKeyOnUndefinedThrows ==
  (IsSelected /\ call.path.t = "String" /\ call.target = Undefined)
  => call.result = TypeError

\* C14: createSelector(path), path a sequence of keys, applied to an
\* undefined target returns undefined and does not throw.
C14_KeySequenceOnUndefined ==
  (IsSelected /\ call.path.t = "Array" /\ call.target = Undefined)
  => call.result = Undefined

C14_Witness ==
  /\ IsSelected
  /\ call.path = Arr(<<Str("a"), Str("b")>>)
  /\ call.target = Undefined
  /\ call.result = Undefined


\* r is a mapping that holds v at keys and has, at every level along keys,
\* exactly the other keys of o with the values they have in o.
RECURSIVE SameExceptAt(_, _, _, _)
SameExceptAt(r, o, keys, v) ==
  IF keys = <<>> THEN r = v
  ELSE LET k == Head(keys)
           was == OwnProps(o)
       IN /\ r.t = "Object"
          /\ DOMAIN r.v = DOMAIN was \cup {k}
          /\ \A j \in DOMAIN was \ {k} : r.v[j] = was[j]
          /\ SameExceptAt(r.v[k], IF k \in DOMAIN was THEN was[k] ELSE Undefined,
                          Tail(keys), v)

IsSet == call.op = "set"

\* C15: for every path p, value v and mapping o, createSetter(p)(v, o)
\* returns a mapping that holds v at p and equals o everywhere else (every
\* sibling key at every level along p keeps its value), and o has the same
\* contents after the call as before it.
C15_SetterCopiesAlongPath ==
  IsSet
  => /\ SameExceptAt(call.result, call.target, KeysOf(call.path), call.value)
     /\ call.targetAfter = call.target

C15_Witness ==
  /\ IsSet
  /\ call.path = Arr(<<Str("a"), Str("a"), Str("b")>>)
  /\ call.value = Str("rv")
  /\ AllPresent(call.target, KeysOf(call.path))
  /\ call.result # call.target
  /\ path(<<Str("a"), Str("a"), Str("b")>>, call.result) = Str("rv")
  /\ path(<<Str("a"), Str("b")>>, call.result) = Num(1)
  /\ call.targetAfter = call.target


IsRanged == call.op = "ranged"

\* C16: for all bounds low, high and every response r with a numeric status,
\* statusWithinRange(low, high)(r) is true exactly when r.status >= low and
\* r.status < high.
C16_HalfOpenRange ==
  (IsRanged /\ call.response.t = "Object"
     /\ "status" \in DOMAIN call.response.v
     /\ call.response.v["status"].t = "Number")
  => call.result =
       Bool(/\ call.response.v["status"].v >= call.low.v
            /\ call.response.v["status"].v < call.high.v)


IsFiltered == call.op = "filtered"

IsResponded == call.op = "responded"

\* C17: statusFilter returns the empty mapping {} for every nil or empty
\* input: undefined, null, {} and [].
C17_NilOrEmptyToEmptyObject ==
  (IsFiltered /\ call.response \in {Undefined, Null, EmptyObj, Arr(<<>>)})
  => call.result = EmptyObj

\* A response with status 401 and a headers lookup object.
IsUnauthorized(r) ==
  /\ r.t = "Object"
  /\ {"status", "headers"} \subseteq DOMAIN r.v
  /\ r.v["status"] = Num(401)
  /\ r.v["headers"].t = "Headers"

\* C18: for every response with status 401 and a headers lookup object,
\* statusFilter returns exactly { redirect_to: headers.get('location') },
\* whatever the body holds (it is not decoded, so a broken body does not
\* throw); through fetchCallback the handler receives that mapping as data
\* and {} as meta.
C18_UnauthorizedRedirects ==
  /\ (IsFiltered /\ IsUnauthorized(call.response))
     => call.result =
          Obj("redirect_to" :> call.response.v["headers"].location)
  /\ (IsResponded /\ IsUnauthorized(call.response))
     => call.handlerArgs =
          <<Obj("redirect_to" :> call.response.v["headers"].location),
            EmptyObj>>

C18_Witness ==
  /\ IsResponded
  /\ IsUnauthorized(call.response)
  /\ call.func = testFetchHandler
  /\ Get(call.response, "value") = Str("{oops")
  /\ call.result =
       Obj(("data" :> Obj("redirect_to" :> Str("url")))
           @@ ("meta" :> EmptyObj))


\* A response with a numeric status and a body that decodes.
HasStatusAndBody(r) ==
  /\ r.t = "Object"
  /\ {"status", "value"} \subseteq DOMAIN r.v
  /\ r.v["status"].t = "Number"
  /\ ~IsThrow(encodeResponse(r))

IsSuccessStatus(r) == r.v["status"].v >= 200 /\ r.v["status"].v < 300

\* C19: for a non-nil response whose status is not 401, statusFilter returns
\* the decoded body when 200 <= status < 300, and does not return the
\* decoded body for any status outside that interval.
C19_DecodedOnlyInSuccessRange ==
  (IsFiltered /\ HasStatusAndBody(call.response)
     /\ call.response.v["status"] # Num(401))
  => IF IsSuccessStatus(call.response)
     THEN call.result = encodeResponse(call.response)
     ELSE call.result # encodeResponse(call.response)

\* What the claim expects the handler to be given for a decoded body B.
ExpectedData(B) ==
  IF B.t = "Object" /\ "data" \in DOMAIN B.v THEN B.v["data"] ELSE B

ExpectedMeta(B) ==
  IF "meta" \in DOMAIN OwnProps(B) THEN OwnProps(B)["meta"] ELSE EmptyObj

\* C20: for a success response (status in [200, 300)) whose decoded body is
\* B, fetchCallback(x)(response) equals H(data, meta), where data is B.data
\* when B is a mapping with a data key and B itself otherwise, meta is B.meta
\* when present and {} otherwise, and H is x itself when x is a function and
\* createAction(x) when x is a type string.
C20_SuccessGoesToHandler ==
  (IsResponded /\ HasStatusAndBody(call.response)
     /\ IsSuccessStatus(call.response))
  => LET B == encodeResponse(call.response)
         data == ExpectedData(B)
         meta == ExpectedMeta(B)
     IN /\ call.handlerArgs = <<data, meta>>
        /\ call.result =
             (CASE call.func = testFetchHandler ->
                     Obj(("data" :> data) @@ ("meta" :> meta))
                [] call.func = identity -> data
                [] call.func.t = "String" ->
                     ActionFor(call.func, <<data, meta>>))

C20_Witness ==
  /\ IsResponded
  /\ call.func = Str("T1")
  /\ Get(call.response, "status") = Num(204)
  /\ Get(call.response, "value") = Str("{\"data\":\"ab\",\"meta\":\"rv\"}")
  /\ call.result =
       Obj((("type" :> Str("T1")) @@ ("payload" :> Str("ab")))
           @@ ("meta" :> Str("rv")))


\* C21: for every handler function or type string x, fetchCallback(x) does
\* not throw when called with undefined, null, {} or [], and each of these
\* inputs reaches the handler as the empty result {} (with meta {}).
C21_NilOrEmptyResponseIsHarmless ==
  (IsResponded /\ call.response \in {Undefined, Null, EmptyObj, Arr(<<>>)})
  => /\ ~IsThrow(call.result)
     /\ call.handlerArgs = <<EmptyObj, EmptyObj>>


IsFetched == call.op = "fetched"

FetchedParams == call.result.v["payload"].v["params"]

\* C22: for every api name n and url u, namedApiFetchWrapper(n)(u, params),
\* called without a suffix, returns an action of type 'EFFECT_FETCH' whose
\* payload.url is '/api/' + n + '.api' + u.
C22_UrlOfNamedFetch ==
  (IsFetched /\ call.suffix = Undefined)
  => /\ call.result.v["type"] = Str("EFFECT_FETCH")
     /\ call.result.v["payload"].v["url"] =
          Str("/api/" \o call.apiName.v \o ".api" \o call.url.v)

\* C23: for every api name n, url and params, payload.params.headers of the
\* action namedApiFetchWrapper(n) builds is exactly the two-key mapping
\* { Accept: 'application/x.' + n + '-api.1+json',
\*   'Content-Type': 'application/json' }.
C23_HeadersOfNamedFetch ==
  IsFetched
  => FetchedParams.v["headers"] =
       Obj(("Accept" :>
              Str("application/x." \o call.apiName.v \o "-api.1+json"))
           @@ ("Content-Type" :> Str("application/json")))

\* The method the caller supplied, undefined when there is none.
CallerMethod ==
  IF isNil(call.params) THEN Undefined ELSE Get(call.params, "method")

\* C24: the params of the action namedApiFetchWrapper builds always carry a
\* method key: 'GET' when the caller passed no params or params without a
\* method (none, undefined or null), and the caller's own method value,
\* unchanged, whenever the caller supplied one.
C24_MethodDefaultsToGet ==
  IsFetched
  => /\ "method" \in DOMAIN FetchedParams.v
     /\ FetchedParams.v["method"] =
          (IF isNil(CallerMethod) THEN Str("GET") ELSE CallerMethod)

C24_Witness ==
  /\ IsFetched
  /\ CallerMethod = Str("")
  /\ "body" \notin DOMAIN FetchedParams.v
  /\ FetchedParams.v["method"] = Str("")


\* The params of the caller carry a headers mapping.
CallerHasHeaders ==
  /\ call.params.t = "Object"
  /\ "headers" \in DOMAIN call.params.v
  /\ call.params.v["headers"].t = "Object"

\* C26: in the params namedApiFetchWrapper builds, a headers mapping of the
\* caller is replaced entirely by the generated headers (no caller header
\* key or value survives), while every other params key the caller
\* supplied, such as body, is carried over unchanged.
C26_CallerHeadersReplaced ==
  (IsFetched /\ CallerHasHeaders)
  => /\ FetchedParams.v["headers"] =
          headersWithNamedAccept(call.apiName).v["headers"]
     /\ "X-Caller" \notin DOMAIN FetchedParams.v["headers"].v
     /\ FetchedParams.v["headers"].v["Accept"] # Str("text/html")
     /\ \A k \in DOMAIN call.params.v \ {"headers"} :
          /\ k \in DOMAIN FetchedParams.v
          /\ FetchedParams.v[k] = call.params.v[k]

C26_Witness ==
  /\ IsFetched
  /\ CallerHasHeaders
  /\ "X-Caller" \in DOMAIN call.params.v["headers"].v
  /\ "body" \in DOMAIN call.params.v
  /\ FetchedParams.v["body"] = Obj("testKey1" :> Str("v1"))
  /\ "X-Caller" \notin DOMAIN FetchedParams.v["headers"].v


IsTicketed == call.op = "ticket"

\* The value of the first parameter named ticket, '' when there is none.
TicketValueOf(params) ==
  IF \A i \in 1..Len(params) : params[i][1] # "ticket" THEN Str("")
  ELSE Str(params[CHOOSE i \in 1..Len(params) :
                    /\ params[i][1] = "ticket"
                    /\ \A h \in 1..(i - 1) : params[h][1] # "ticket"][2])

\* C25: for every querystring q, getTicket(q) returns a mapping with exactly
\* one key, 'ticket', whose value is the value of q's ticket parameter when
\* q has one, wherever it stands in q (first after the '?' included), and
\* the empty string when q has no ticket parameter.
C25_TicketOfQuerystring ==
  IsTicketed
  => call.result = Obj("ticket" :> TicketValueOf(call.query.params))


\* C27: for a state that is not a plain mapping (sequence, string, boolean,
\* number, null), an action whose type has no handler does not leave the
\* state unchanged: the reducer returns the empty mapping {} of the fallback
\* handler, and the previous state value is lost.
C27_NonMappingStateLostWithoutHandler ==
  (IsReducerCall /\ type(GivenState) # "Object" /\ ~Handled(call.action))
  => /\ call.result = EmptyObj
     /\ call.result # GivenState
     /\ state = EmptyObj

C27_Witness ==
  /\ IsReducerCall
  /\ call.stateArg = Arr(<<Str("a")>>)
  /\ HasType(call.action, "T3")
  /\ ~Handled(call.action)
  /\ call.result = EmptyObj
  /\ state = EmptyObj

\* C28: from a plain-mapping state, a step through a reducer built by
\* createReducer never shrinks the set of keys of the state: every key
\* present before the step is present after it, and a key keeps its value
\* unless the handler's result carries that key.
C28_KeysNeverShrink ==
  [][(state.t = "Object" /\ call'.op = "dispatch")
       => /\ state'.t = "Object"
          /\ \A k \in DOMAIN state.v :
               /\ k \in DOMAIN state'.v
               /\ k \notin DOMAIN OwnProps(call'.handlerResult)
                  => state'.v[k] = state.v[k]]_vars

C28_Witness ==
  /\ IsReducerCall
  /\ call.stateArg.t = "Object"
  /\ state.t = "Object"
  /\ DOMAIN call.stateArg.v # DOMAIN state.v
  /\ DOMAIN call.stateArg.v \subseteq DOMAIN state.v
  /\ \E k \in DOMAIN call.stateArg.v : state.v[k] # call.stateArg.v[k]
  /\ \E k \in DOMAIN call.stateArg.v : state.v[k] = call.stateArg.v[k]


\* C29: for every path p, value v and mapping o, reading back what was
\* written returns it, createSelector(p)(createSetter(p)(v, o)) = v, and
\* writing the same path twice keeps only the last value,
\* createSetter(p)(v2, createSetter(p)(v1, o)) = createSetter(p)(v2, o).
C29_SetThenGetAndSetTwice ==
  /\ call.op = "readBack" => call.result = call.value
  /\ call.op = "setAgain"
     => /\ call.result = createSetter(call.path, call.value, call.target).result
        /\ SameExceptAt(call.result, call.target, KeysOf(call.path),
                        call.value)

C29_Witness ==
  /\ call.op = "setAgain"
  /\ call.path = Arr(<<Str("a"), Str("b")>>)
  /\ call.first = Str("rv")
  /\ call.value = Obj("a" :> Num(1))
  /\ AllPresent(call.target, KeysOf(call.path))
  /\ path(<<Str("a"), Str("b")>>, call.written) = Str("rv")
  /\ path(<<Str("a"), Str("b")>>, call.target) # Str("rv")
  /\ path(<<Str("a"), Str("b"), Str("a")>>, call.result) = Num(1)


\* A non-nil response whose numeric status is neither 401 nor a success.
MatchesNoBranch(r) ==
  /\ r.t = "Object"
  /\ "status" \in DOMAIN r.v
  /\ r.v["status"].t = "Number"
  /\ r.v["status"] # Num(401)
  /\ ~IsSuccessStatus(r)

\* C30: for a non-nil response whose status matches no branch of
\* statusFilter (not 401 and not a success), fetchCallback(x) still calls the
\* handler exactly once, with data undefined and meta {}, and the body is
\* ignored; when x is a type string the result is
\* { type: x, payload: {}, meta: {} }.
C30_UnmatchedStatusReachesHandler ==
  (IsResponded /\ MatchesNoBranch(call.response))
  => /\ call.handlerArgs = <<Undefined, EmptyObj>>
     /\ call.func.t = "String"
        => call.result =
             Obj((("type" :> call.func) @@ ("payload" :> EmptyObj))
                 @@ ("meta" :> EmptyObj))

====
